---- MODULE Spec2Model ----
(***************************************************************************)
(* Prema6000: the driver of the Prema 6000 digital multimeter              *)
(* (pymeasure/instruments/prema/prema6000.py).                             *)
(*                                                                         *)
(* Representation of Python values.  A Python value is a pair <<tag, v>>:  *)
(* PyStr, PyInt, PyBool.  The text of a str literal of the source is a TLA+ *)
(* string; text cut out of the status string (and every two-character      *)
(* instrument code, which is compared with such text) is the sequence of   *)
(* its characters, each a one-character TLA+ string.                       *)
(***************************************************************************)
EXTENDS Integers, Sequences, FiniteSets, TLC

VARIABLES
    state_string,   \* the argument of the state_to_dict call at hand
    outcome,        \* what that call gave: a record or the exception raised
    heap,           \* the dict objects state_to_dict has created, by identity
    held,           \* the records callers hold: <<identity, value when returned>>
    log,            \* the calls made so far, each with what it gave
    sent            \* the commands written to the adapter, in order

vars == <<state_string, outcome, heap, held, log, sent>>

----------------------------------------------------------------------------
(* Python values *)

PyStr(s) == <<"str", s>>
PyInt(n) == <<"int", n>>
PyBool(b) == <<"bool", b>>

\* bool is a subclass of int: True == 1 and False == 0, with equal hashes.
PyNorm(v) == IF v[1] = "bool" THEN PyInt(IF v[2] THEN 1 ELSE 0) ELSE v

PyEq(a, b) == PyNorm(a) = PyNorm(b)

Min(a, b) == IF a < b THEN a ELSE b

\* s[i:j] for 0 <= i <= j: never raises, the slice is cut at the end of s.
Slice(s, i, j) == SubSeq(s, i + 1, Min(j, Len(s)))

\* s[i] for i >= 0 raises IndexError unless i < len(s).
InBounds(s, i) == i < Len(s)

Item(s, i) == s[i + 1]

\* int(c) of a one-character str: its value for a decimal digit, else ValueError.
DigitValue ==
    ("0" :> 0) @@ ("1" :> 1) @@ ("2" :> 2) @@ ("3" :> 3) @@ ("4" :> 4) @@
    ("5" :> 5) @@ ("6" :> 6) @@ ("7" :> 7) @@ ("8" :> 8) @@ ("9" :> 9)

\* As IsDigit, with "0" taken for no digit.
IsDigitNonZero(c) == c \in DOMAIN DigitValue \ {"0"}

IsDigit(c) == c \in DOMAIN DigitValue

EmptyDict == [k \in {} |-> PyInt(0)]

\* d[k] = v
SetItem(d, k, v) == (k :> v) @@ d

----------------------------------------------------------------------------
(* The tables *)

\* As MODES, with the digit 0 for the letter O in the code of 2-wire resistance.
MODES_zero_for_O ==
    ("direct voltage" :> <<"V", "D">>) @@
    ("alternating voltage" :> <<"V", "A">>) @@
    ("2-wire resistance" :> <<"0", "2">>) @@
    ("4-wire resistance" :> <<"O", "4">>) @@
    ("direct current" :> <<"I", "D">>) @@
    ("alternating current" :> <<"I", "A">>) @@
    ("celsius" :> <<"T", "C">>) @@
    ("farenheit" :> <<"T", "F">>) @@
    ("kelvin" :> <<"T", "K">>)

MODES ==
    ("direct voltage" :> <<"V", "D">>) @@
    ("alternating voltage" :> <<"V", "A">>) @@
    ("2-wire resistance" :> <<"O", "2">>) @@
    ("4-wire resistance" :> <<"O", "4">>) @@
    ("direct current" :> <<"I", "D">>) @@
    ("alternating current" :> <<"I", "A">>) @@
    ("celsius" :> <<"T", "C">>) @@
    ("farenheit" :> <<"T", "F">>) @@
    ("kelvin" :> <<"T", "K">>)

\* As CODE_TO_MODE, with the digit 0 for the letter O in the key of 2-wire
\* resistance.
CODE_TO_MODE_zero_for_O ==
    (<<"V", "D">> :> "direct voltage") @@
    (<<"V", "A">> :> "alternating voltage") @@
    (<<"0", "2">> :> "2-wire resistance") @@
    (<<"O", "4">> :> "4-wire resistance") @@
    (<<"I", "D">> :> "direct current") @@
    (<<"I", "A">> :> "alternating current") @@
    (<<"T", "C">> :> "celsius") @@
    (<<"T", "F">> :> "farenheit") @@
    (<<"T", "K">> :> "kelvin")

CODE_TO_MODE ==
    (<<"V", "D">> :> "direct voltage") @@
    (<<"V", "A">> :> "alternating voltage") @@
    (<<"O", "2">> :> "2-wire resistance") @@
    (<<"O", "4">> :> "4-wire resistance") @@
    (<<"I", "D">> :> "direct current") @@
    (<<"I", "A">> :> "alternating current") @@
    (<<"T", "C">> :> "celsius") @@
    (<<"T", "F">> :> "farenheit") @@
    (<<"T", "K">> :> "kelvin")

\* As INT_TIMES, without the code no setting transmits.
INT_TIMES_without_T2 ==
    (<<"T", "1">> :> "100 ms") @@
    (<<"T", "3">> :> "1 s") @@
    (<<"T", "4">> :> "10 s")

INT_TIMES ==
    (<<"T", "1">> :> "100 ms") @@
    (<<"T", "2">> :> "1 s") @@
    (<<"T", "3">> :> "1 s") @@
    (<<"T", "4">> :> "10 s")

----------------------------------------------------------------------------
(* state_to_dict *)

Raise(kind) == [kind |-> kind, value |-> EmptyDict]

Return(d) == [kind |-> "ok", value |-> d]

\* The key under which the channel is stored.
channel_key == "mutiplexer channel"

\* The statements of state_to_dict in their order; the first one that raises
\* ends the call.  d0 is the dict the record is built in.
state_to_dict_in(d0, s) ==
    IF Slice(s, 12, 14) \notin DOMAIN CODE_TO_MODE THEN Raise("KeyError") ELSE
    LET d1 == SetItem(d0, "mode", PyStr(CODE_TO_MODE[Slice(s, 12, 14)]))
        d2 == SetItem(d1, "range", PyStr(Slice(s, 14, 16)))
        d3 == SetItem(d2, "autoranging",
                      IF Slice(s, 16, 18) = <<"A", "1">>
                      THEN PyStr("enabled") ELSE PyStr("disabled"))
    IN
    IF Slice(s, 18, 20) \notin DOMAIN INT_TIMES THEN Raise("KeyError") ELSE
    LET d4 == SetItem(d3, "integration time", PyStr(INT_TIMES[Slice(s, 18, 20)]))
        d5 == SetItem(d4, "continuous",
                      IF Slice(s, 20, 22) = <<"S", "1">>
                      THEN PyStr("started") ELSE PyStr("stopped"))
        d6 == SetItem(d5, "SRQ status",
                      IF Slice(s, 22, 24) = <<"Q", "0">>
                      THEN PyStr("without") ELSE PyStr("with"))
    IN
    IF ~InBounds(s, 25) THEN Raise("IndexError") ELSE
    LET channel == Item(s, 25) IN
    IF channel # "O" /\ ~IsDigit(channel) THEN Raise("ValueError") ELSE
    LET d7 == SetItem(d6, channel_key,
                      IF channel = "O" THEN PyStr("off")
                      ELSE PyInt(DigitValue[channel]))
    IN
    IF ~InBounds(s, 27) THEN Raise("IndexError") ELSE  \* print(state_string[27])
    LET d8 == SetItem(d7, "display mode",
                      IF Item(s, 27) = "1" THEN PyStr("on") ELSE PyStr("off"))
    IN
    IF ~InBounds(s, 29) THEN Raise("IndexError") ELSE
    Return(SetItem(d8, "latest pressed key", PyStr(Item(s, 29))))

\* As new_state_dict, with one dict kept for every call.
shared_state_dict(h) == 1

\* state_dict = {}: a new dict object, whose identity no earlier one shares.
new_state_dict(h) == Len(h) + 1

Deref(h, ref) == IF ref \in DOMAIN h THEN h[ref] ELSE EmptyDict

Store(h, ref, d) == IF ref \in DOMAIN h THEN [h EXCEPT ![ref] = d] ELSE Append(h, d)

NotCalled == [kind |-> "none", value |-> EmptyDict]

\* One call state_to_dict(s).  A record that is returned stays with the caller;
\* the dict of a call that raised is unreachable.
Call_state_to_dict(s) ==
    LET ref == new_state_dict(heap)
        r == state_to_dict_in(Deref(heap, ref), s)
    IN  /\ state_string' = s
        /\ outcome' = r
        /\ heap' = IF r.kind = "ok" THEN Store(heap, ref, r.value) ELSE heap
        /\ held' = IF r.kind = "ok" THEN Append(held, <<ref, r.value>>) ELSE held
        /\ log' = Append(log, [op |-> "state_to_dict", arg |-> s, kind |-> r.kind,
                                value |-> r.value])
        /\ UNCHANGED sent

\* state_to_dict(s) called on its own.
state_to_dict(s) == state_to_dict_in(EmptyDict, s)

----------------------------------------------------------------------------
(* The settable properties *)

\* A dict is the set of its <<key, value>> items; a key is found by == (and hash).
DictHas(d, k) == \E e \in d : PyEq(e[1], k)

DictGet(d, k) == (CHOOSE e \in d : PyEq(e[1], k))[2]

ModesDict == {<<PyStr(m), MODES[m]>> : m \in DOMAIN MODES}

old_mode ==
    [name |-> "old_mode", set_command |-> "%s",
     validator |-> "strict_discrete_set", values |-> ModesDict,
     map_values |-> TRUE, set_process |-> "identity"]

\* No validator and no values are given; set_process is the property object
\* set_mode.
mode ==
    [name |-> "mode", set_command |-> "%s",
     validator |-> "identity", values |-> {},
     map_values |-> FALSE, set_process |-> "set_mode"]

return_mode ==
    [name |-> "return_mode", set_command |-> "%s",
     validator |-> "strict_discrete_set",
     values |-> {<<PyStr("measurement only"), <<"L", "0">>>>,
                 <<PyStr("measurement and status"), <<"L", "1">>>>},
     map_values |-> TRUE, set_process |-> "identity"]

\* As autorange, without the boolean keys.
autorange_strings_only ==
    [name |-> "autorange", set_command |-> "%s",
     validator |-> "strict_discrete_set",
     values |-> {<<PyStr("enabled"), <<"A", "1">>>>,
                 <<PyStr("disabled"), <<"A", "0">>>>},
     map_values |-> TRUE, set_process |-> "identity"]

autorange ==
    [name |-> "autorange", set_command |-> "%s",
     validator |-> "strict_discrete_set",
     values |-> {<<PyBool(TRUE), <<"A", "1">>>>, <<PyBool(FALSE), <<"A", "0">>>>,
                 <<PyStr("enabled"), <<"A", "1">>>>,
                 <<PyStr("disabled"), <<"A", "0">>>>},
     map_values |-> TRUE, set_process |-> "identity"]

\* As integration_time, with the decoder's label "1 s" accepted too.
integration_time_with_label ==
    [name |-> "integration_time", set_command |-> "%s",
     validator |-> "strict_discrete_set",
     values |-> {<<PyStr("100ms"), <<"T", "1">>>>, <<PyStr("1s"), <<"T", "3">>>>,
                 <<PyStr("1 s"), <<"T", "3">>>>, <<PyStr("10s"), <<"T", "4">>>>},
     map_values |-> TRUE, set_process |-> "identity"]

\* As integration_time, with the codes numbered T1, T2, T3.
integration_time_T2 ==
    [name |-> "integration_time", set_command |-> "%s",
     validator |-> "strict_discrete_set",
     values |-> {<<PyStr("100ms"), <<"T", "1">>>>, <<PyStr("1s"), <<"T", "2">>>>,
                 <<PyStr("10s"), <<"T", "3">>>>},
     map_values |-> TRUE, set_process |-> "identity"]

integration_time ==
    [name |-> "integration_time", set_command |-> "%s",
     validator |-> "strict_discrete_set",
     values |-> {<<PyStr("100ms"), <<"T", "1">>>>, <<PyStr("1s"), <<"T", "3">>>>,
                 <<PyStr("10s"), <<"T", "4">>>>},
     map_values |-> TRUE, set_process |-> "identity"]

\* strict_discrete_set(value, values): the value if it is in values, else
\* ValueError (the invalid choice).
strict_discrete_set_accepts(value, values) == DictHas(values, value)

\* The setter Instrument.control builds for a property p, given value: validate,
\* apply set_process, map the value through values, write set_command % value.
\* What it gives: the exception raised, if any, and the commands written.
fset(p, value) ==
    IF p.validator = "strict_discrete_set"
       /\ ~strict_discrete_set_accepts(value, p.values)
    THEN [error |-> "ValueError", written |-> <<>>]
    ELSE IF p.set_process # "identity"
    THEN [error |-> "TypeError", written |-> <<>>]  \* a property object is not callable
    ELSE [error |-> "none",
          written |-> <<IF p.map_values THEN DictGet(p.values, value) ELSE value>>]

\* instrument.<p> = value
Set(p, value) ==
    LET r == fset(p, value)
    IN  /\ sent' = sent \o r.written
        /\ log' = Append(log, [op |-> p.name, arg |-> value, kind |-> r.error,
                                value |-> r.written])
        /\ UNCHANGED <<state_string, outcome, heap, held>>

----------------------------------------------------------------------------
(* Status strings *)

MaxLen == 31

ModeCodes == DOMAIN CODE_TO_MODE

TimeCodes == DOMAIN INT_TIMES

Fields(modes, ranges, autos, times, conts, srqs, chans, disps, keys) ==
    [mode : modes, range : ranges, auto : autos, time : times, cont : conts,
     srq : srqs, chan : chans, disp : disps, key : keys]

\* The status string of length len that carries the fields f at the offsets of
\* the protocol and the character filler everywhere else.
Build(f, filler, len) ==
    [i \in 1..len |->
        CASE i = 13 -> f.mode[1]  [] i = 14 -> f.mode[2]
          [] i = 15 -> f.range[1] [] i = 16 -> f.range[2]
          [] i = 17 -> f.auto[1]  [] i = 18 -> f.auto[2]
          [] i = 19 -> f.time[1]  [] i = 20 -> f.time[2]
          [] i = 21 -> f.cont[1]  [] i = 22 -> f.cont[2]
          [] i = 23 -> f.srq[1]   [] i = 24 -> f.srq[2]
          [] i = 26 -> f.chan
          [] i = 28 -> f.disp
          [] i = 30 -> f.key
          [] OTHER -> filler]

Fillers == {"1", "#"}

\* Every combination of known codes, in strings of full length and longer.
WellFormedFields ==
    Fields(ModeCodes, {<<"0", "2">>, <<"A", "1">>},
           {<<"A", "0">>, <<"A", "1">>}, TimeCodes,
           {<<"S", "0">>, <<"S", "1">>}, {<<"Q", "0">>, <<"Q", "1">>},
           {"O", "0", "3"}, {"0", "1"}, {"5", "O"})

WellFormed ==
    {Build(f, c, n) : f \in WellFormedFields, c \in Fillers, n \in 30..MaxLen}

\* Known and unknown contents at every offset, in strings of every length.
DamagedFields ==
    Fields({<<"V", "D">>, <<"O", "2">>, <<"0", "2">>, <<"D", "V">>},
           {<<"0", "2">>},
           {<<"A", "1">>, <<"a", "1">>},
           {<<"T", "2">>, <<"T", "3">>, <<"T", "5">>},
           {<<"S", "1">>, <<"1", "S">>}, {<<"Q", "0">>, <<"Q", "2">>},
           {"O", "7", "X"}, {"1", "X"}, {"5"})

Damaged == {Build(f, "#", n) : f \in DamagedFields, n \in 0..MaxLen}

StatusStrings == WellFormed \cup Damaged

----------------------------------------------------------------------------
(* Decoding one status string *)

InitDecode ==
    /\ state_string \in StatusStrings
    /\ outcome = NotCalled
    /\ heap = <<>>
    /\ held = <<>>
    /\ log = <<>>
    /\ sent = <<>>

Decode ==
    /\ outcome = NotCalled
    /\ Call_state_to_dict(state_string)

SpecDecode == InitDecode /\ [][Decode]_vars

----------------------------------------------------------------------------
(* A caller decoding one string after another *)

MaxCalls == 3

WellFormedA ==
    Build([mode |-> <<"V", "D">>, range |-> <<"0", "2">>, auto |-> <<"A", "1">>,
           time |-> <<"T", "3">>, cont |-> <<"S", "1">>, srq |-> <<"Q", "0">>,
           chan |-> "3", disp |-> "1", key |-> "5"], "#", 30)

WellFormedB ==
    Build([mode |-> <<"O", "4">>, range |-> <<"1", "1">>, auto |-> <<"A", "0">>,
           time |-> <<"T", "1">>, cont |-> <<"S", "0">>, srq |-> <<"Q", "1">>,
           chan |-> "O", disp |-> "0", key |-> "K"], "1", 31)

CallStrings ==
    {WellFormedA, WellFormedB,
     SubSeq(WellFormedA, 1, 29), SubSeq(WellFormedA, 1, 13), <<>>,
     [WellFormedA EXCEPT ![13] = "X"], [WellFormedA EXCEPT ![20] = "5"],
     [WellFormedB EXCEPT ![26] = "X"]}

InitCalls ==
    /\ state_string = <<>>
    /\ outcome = NotCalled
    /\ heap = <<>>
    /\ held = <<>>
    /\ log = <<>>
    /\ sent = <<>>

DecodeAny ==
    /\ Len(log) < MaxCalls
    /\ \E s \in CallStrings : Call_state_to_dict(s)

SpecCalls == InitCalls /\ [][DecodeAny]_vars

----------------------------------------------------------------------------
(* A caller setting one property after another *)

MaxSets == 2

Junk ==
    {PyBool(TRUE), PyBool(FALSE), PyInt(0), PyInt(1), PyInt(2),
     PyStr("enabled"), PyStr("1s"), PyStr("1 s"), PyStr("measurement only"),
     PyStr("kelvin"), PyStr("VD"), PyStr("bogus")}

ModeValues == {PyStr(m) : m \in DOMAIN MODES} \cup Junk

NewModeValues == {PyStr("direct voltage"), PyStr("2-wire resistance")} \cup Junk

ReturnModeValues == {PyStr("measurement and status"), PyStr("L0")} \cup Junk

AutorangeValues == {PyStr("disabled"), PyStr("on")} \cup Junk

IntegrationTimeValues == {PyStr("100ms"), PyStr("10s"), PyStr("T2")} \cup Junk

SetOldMode == Len(log) < MaxSets /\ \E v \in ModeValues : Set(old_mode, v)

SetMode == Len(log) < MaxSets /\ \E v \in NewModeValues : Set(mode, v)

SetReturnMode == Len(log) < MaxSets /\ \E v \in ReturnModeValues : Set(return_mode, v)

SetAutorange == Len(log) < MaxSets /\ \E v \in AutorangeValues : Set(autorange, v)

SetIntegrationTime ==
    Len(log) < MaxSets /\ \E v \in IntegrationTimeValues : Set(integration_time, v)

NextSet ==
    \/ SetOldMode
    \/ SetMode
    \/ SetReturnMode
    \/ SetAutorange
    \/ SetIntegrationTime

SpecSet == InitCalls /\ [][NextSet]_vars

----------------------------------------------------------------------------
(* What the claims say about one decoded string.  The sets and labels below  *)
(* are written out from the protocol's description, not from the decoder.    *)

Decoded == outcome # NotCalled

Cut(a) == <<state_string[a + 1], state_string[a + 2]>>

At(a) == state_string[a + 1]

HasCode(a, codes) == Len(state_string) >= a + 2 /\ Cut(a) \in codes

NineCodes == {MODES[m] : m \in DOMAIN MODES}

T1toT4 == {<<"T", "1">>, <<"T", "2">>, <<"T", "3">>, <<"T", "4">>}

DecimalDigits == <<"0", "1", "2", "3", "4", "5", "6", "7", "8", "9">>

IsChannelChar(c) == c = "O" \/ \E k \in 1..10 : DecimalDigits[k] = c

ModeNameOf(code) == CHOOSE m \in DOMAIN MODES : MODES[m] = code

TimeLabelOf(code) ==
    CASE code = <<"T", "1">> -> "100 ms"
      [] code = <<"T", "2">> -> "1 s"
      [] code = <<"T", "3">> -> "1 s"
      [] code = <<"T", "4">> -> "10 s"

ChannelOf(c) ==
    IF c = "O" THEN PyStr("off")
    ELSE PyInt((CHOOSE k \in 1..10 : DecimalDigits[k] = c) - 1)

ModeOk == HasCode(12, NineCodes)

TimeOk == HasCode(18, T1toT4)

ChannelOk == Len(state_string) > 25 /\ IsChannelChar(At(25))

ChannelBad == Len(state_string) > 25 /\ ~IsChannelChar(At(25))

\* A string built by placing a known code at each offset.
KnownCodesEverywhere ==
    /\ Len(state_string) >= 30
    /\ ModeOk
    /\ Cut(16) \in {<<"A", "0">>, <<"A", "1">>}
    /\ TimeOk
    /\ Cut(20) \in {<<"S", "0">>, <<"S", "1">>}
    /\ Cut(22) \in {<<"Q", "0">>, <<"Q", "1">>}
    /\ ChannelOk
    /\ At(27) \in {"0", "1"}

\* The record the protocol's description gives for the string at hand, with
\* the channel under the key chanKey.
DocumentedRecord(chanKey) ==
    ("mode" :> PyStr(ModeNameOf(Cut(12)))) @@
    ("range" :> PyStr(Cut(14))) @@
    ("autoranging" :>
        PyStr(IF Cut(16) = <<"A", "1">> THEN "enabled" ELSE "disabled")) @@
    ("integration time" :> PyStr(TimeLabelOf(Cut(18)))) @@
    ("continuous" :>
        PyStr(IF Cut(20) = <<"S", "1">> THEN "started" ELSE "stopped")) @@
    ("SRQ status" :> PyStr(IF Cut(22) = <<"Q", "0">> THEN "without" ELSE "with")) @@
    (chanKey :> ChannelOf(At(25))) @@
    ("display mode" :> PyStr(IF At(27) = "1" THEN "on" ELSE "off")) @@
    ("latest pressed key" :> PyStr(At(29)))

\* C1: a string with a known code at each offset decodes to the record whose
\* fields are mode, range, autoranging, integration time, continuous, SRQ
\* status, multiplexer channel, display mode and latest pressed key, each with
\* the documented decoding of its code, whatever the filler characters are.
C1_DecodesAsDocumented ==
    (Decoded /\ KnownCodesEverywhere) =>
        outcome = [kind |-> "ok", value |-> DocumentedRecord("multiplexer channel")]

\* The same statement with the channel under the key the decoder stores it at.
DecodesAsDocumentedUnderStoredKey ==
    (Decoded /\ KnownCodesEverywhere) =>
        outcome = [kind |-> "ok", value |-> DocumentedRecord("mutiplexer channel")]

C1_Case ==
    /\ Decoded
    /\ KnownCodesEverywhere
    /\ Cut(12) = <<"V", "D">> /\ Cut(14) = <<"0", "2">> /\ Cut(16) = <<"A", "1">>
    /\ Cut(18) = <<"T", "3">> /\ Cut(20) = <<"S", "1">> /\ Cut(22) = <<"Q", "0">>
    /\ At(25) = "3" /\ At(27) = "1" /\ At(29) = "5"

\* C3 as stated: a string shorter than 30 characters fails with the
\* out-of-bounds access error and with no other.
C3_ShortIsIndexError ==
    (Decoded /\ Len(state_string) < 30) => outcome.kind = "IndexError"

\* C3 as amended: a string shorter than 30 characters never decodes; it fails
\* with the out-of-bounds access error exactly when its mode and integration
\* time codes are both present and known and the channel character, if present,
\* is "O" or a digit; with a key-not-found error when one of the two codes is
\* cut short, missing or unknown; with a numeric-parse error otherwise.
C3_ShortFails ==
    (Decoded /\ Len(state_string) < 30) =>
        /\ outcome.kind \in {"KeyError", "ValueError", "IndexError"}
        /\ held = <<>>
        /\ outcome.kind = "KeyError" <=> ~(ModeOk /\ TimeOk)
        /\ outcome.kind = "ValueError" <=> (ModeOk /\ TimeOk /\ ChannelBad)
        /\ outcome.kind = "IndexError" <=> (ModeOk /\ TimeOk /\ ~ChannelBad)

C3_Case ==
    /\ Decoded
    /\ Len(state_string) = 29
    /\ ModeOk /\ TimeOk /\ ChannelOk
    /\ outcome.kind = "IndexError"

\* C4 as stated: in a string of 30 characters or more, an unknown mode or
\* integration time code fails with key-not-found, and a channel character that
\* is neither "O" nor a digit fails with a numeric-parse error.
C4_EachFieldItsError ==
    (Decoded /\ Len(state_string) >= 30) =>
        /\ (~ModeOk \/ ~TimeOk) => outcome.kind = "KeyError"
        /\ ChannelBad => outcome.kind = "ValueError"

\* C4 as amended: an unknown mode or integration time code fails with
\* key-not-found; a bad channel character fails with a numeric-parse error when
\* the mode and integration time codes are known.  No record is returned.
C4_FirstBadFieldDecides ==
    (Decoded /\ Len(state_string) >= 30) =>
        /\ (~ModeOk \/ ~TimeOk) => outcome.kind = "KeyError"
        /\ (ModeOk /\ TimeOk /\ ChannelBad) => outcome.kind = "ValueError"
        /\ (~ModeOk \/ ~TimeOk \/ ChannelBad) =>
               outcome.value = EmptyDict /\ held = <<>>

C4_Case ==
    /\ Decoded
    /\ Len(state_string) >= 30
    /\ ModeOk /\ TimeOk /\ ChannelBad
    /\ outcome.kind = "ValueError"

\* C9: a call returns a record of all nine fields or fails and returns nothing;
\* it succeeds exactly when the string has 30 characters or more, a known mode
\* code, a known integration time code and "O" or a digit for the channel;
\* unknown contents at the other offsets fall to the default label; a failure
\* is a key-not-found, a numeric-parse or an out-of-bounds error.
C9_AllOrNothing ==
    Decoded =>
        /\ outcome.kind = "ok" <=>
               (Len(state_string) >= 30 /\ ModeOk /\ TimeOk /\ ChannelOk)
        /\ outcome.kind = "ok" =>
               /\ Cardinality(DOMAIN outcome.value) = 9
               /\ held = <<<<1, outcome.value>>>>
               /\ outcome.value["range"] = PyStr(Cut(14))
               /\ Cut(16) # <<"A", "1">> =>
                      outcome.value["autoranging"] = PyStr("disabled")
               /\ Cut(20) # <<"S", "1">> =>
                      outcome.value["continuous"] = PyStr("stopped")
               /\ Cut(22) # <<"Q", "0">> =>
                      outcome.value["SRQ status"] = PyStr("with")
               /\ At(27) # "1" => outcome.value["display mode"] = PyStr("off")
               /\ outcome.value["latest pressed key"] = PyStr(At(29))
        /\ outcome.kind # "ok" =>
               /\ outcome.kind \in {"KeyError", "ValueError", "IndexError"}
               /\ outcome.value = EmptyDict
               /\ held = <<>>

C9_Case ==
    /\ Decoded
    /\ outcome.kind = "ok"
    /\ Cut(16) = <<"a", "1">> /\ Cut(20) = <<"1", "S">> /\ Cut(22) = <<"Q", "2">>
    /\ At(27) = "X"

----------------------------------------------------------------------------
(* What the claims say about a sequence of decode calls *)

\* C8: a call's outcome depends on its argument alone, whatever calls came
\* before; every record returned is a dict of its own, and it still holds what
\* it held when it was returned.
C8_NoStateBetweenCalls ==
    /\ \A i, j \in 1..Len(log) :
           log[i].arg = log[j].arg =>
               log[i].kind = log[j].kind /\ log[i].value = log[j].value
    /\ \A k \in 1..Len(held) : heap[held[k][1]] = held[k][2]
    /\ \A j, k \in 1..Len(held) : j # k => held[j][1] # held[k][1]

C8_Case ==
    /\ Len(log) = 3
    /\ log[1].arg = WellFormedA /\ log[1].kind = "ok"
    /\ log[2].kind = "KeyError"
    /\ log[3].arg = WellFormedA
    /\ Len(held) = 2

----------------------------------------------------------------------------
(* What the claims say about a sequence of set operations.  The choices and  *)
(* codes below are written out from the description of each property.        *)

IntegrationTimeChoices == {PyStr("100ms"), PyStr("1s"), PyStr("10s")}

AutorangeChoices ==
    {PyBool(TRUE), PyBool(FALSE), PyStr("enabled"), PyStr("disabled")}

ReturnModeChoices == {PyStr("measurement only"), PyStr("measurement and status")}

ModeChoices == {PyStr(m) : m \in DOMAIN MODES}

\* v in S, as Python decides it.
InChoices(v, S) == \E c \in S : PyEq(c, v)

ChoicesOf(op) ==
    CASE op = "integration_time" -> IntegrationTimeChoices
      [] op = "autorange" -> AutorangeChoices
      [] op = "return_mode" -> ReturnModeChoices

CodeOf(op, v) ==
    CASE PyEq(v, PyStr("100ms")) -> <<"T", "1">>
      [] PyEq(v, PyStr("1s")) -> <<"T", "3">>
      [] PyEq(v, PyStr("10s")) -> <<"T", "4">>
      [] PyEq(v, PyBool(TRUE)) \/ PyEq(v, PyStr("enabled")) -> <<"A", "1">>
      [] PyEq(v, PyBool(FALSE)) \/ PyEq(v, PyStr("disabled")) -> <<"A", "0">>
      [] PyEq(v, PyStr("measurement only")) -> <<"L", "0">>
      [] PyEq(v, PyStr("measurement and status")) -> <<"L", "1">>

Validated == {"integration_time", "autorange", "return_mode"}

\* The commands a sequence of set operations is to transmit: the code of each
\* valid setting of a validated property, nothing for an invalid one, and for
\* the mode properties whatever their call wrote.
RECURSIVE CodesOfValid(_)
CodesOfValid(calls) ==
    IF calls = <<>> THEN <<>>
    ELSE LET c == calls[Len(calls)]
             before == CodesOfValid(SubSeq(calls, 1, Len(calls) - 1))
         IN  IF c.op \notin Validated THEN before \o c.value
             ELSE IF InChoices(c.arg, ChoicesOf(c.op))
             THEN Append(before, CodeOf(c.op, c.arg))
             ELSE before

\* C5 as stated: setting mode to one of the nine names sends the code of that
\* mode, and setting it to anything else fails with the invalid choice and
\* sends nothing.
C5_ModeIsValidated ==
    \A i \in 1..Len(log) :
        log[i].op = "mode" =>
            IF log[i].arg \in ModeChoices
            THEN log[i].kind = "none" /\ log[i].value = <<MODES[log[i].arg[2]]>>
            ELSE log[i].kind = "ValueError" /\ log[i].value = <<>>

\* The same statement of old_mode, the property declared with the validator.
OldModeIsValidated ==
    \A i \in 1..Len(log) :
        log[i].op = "old_mode" =>
            IF log[i].arg \in ModeChoices
            THEN log[i].kind = "none" /\ log[i].value = <<MODES[log[i].arg[2]]>>
            ELSE log[i].kind = "ValueError" /\ log[i].value = <<>>

\* C6: a setting of integration_time, autorange or return_mode outside the
\* property's choices (membership as Python decides it, under which 1 and 0 are
\* True and False) fails with the invalid choice and transmits nothing; the
\* commands transmitted are the codes of the valid settings, in order.
C6_InvalidChoiceSendsNothing ==
    /\ \A i \in 1..Len(log) :
           (log[i].op \in Validated /\ ~InChoices(log[i].arg, ChoicesOf(log[i].op)))
               => log[i].kind = "ValueError" /\ log[i].value = <<>>
    /\ sent = CodesOfValid(log)

C6_Case ==
    /\ Len(log) = 2
    /\ log[1].op = "integration_time" /\ log[1].arg = PyStr("1 s")
    /\ log[1].kind = "ValueError"
    /\ log[2].op = "autorange" /\ log[2].arg = PyStr("enabled")
    /\ sent = << <<"A", "1">> >>

\* C7: autorange accepts True, False, "enabled" and "disabled"; True and
\* "enabled" transmit A1, False and "disabled" transmit A0.
C7_AutorangeBothForms ==
    \A i \in 1..Len(log) :
        log[i].op = "autorange" =>
            /\ log[i].arg \in {PyBool(TRUE), PyStr("enabled")} =>
                   log[i].kind = "none" /\ log[i].value = << <<"A", "1">> >>
            /\ log[i].arg \in {PyBool(FALSE), PyStr("disabled")} =>
                   log[i].kind = "none" /\ log[i].value = << <<"A", "0">> >>

C7_Case ==
    /\ Len(log) = 2
    /\ log[1].op = "autorange" /\ log[1].arg = PyBool(TRUE)
    /\ log[2].op = "autorange" /\ log[2].arg = PyStr("enabled")
    /\ sent = << <<"A", "1">>, <<"A", "1">> >>

\* A status string that reports the integration time code c among known codes.
Reporting(c) == [WellFormedA EXCEPT ![19] = c[1], ![20] = c[2]]

\* C10: every code an accepted integration_time setting transmits is a key of
\* the decoder's table, so a status string reporting it decodes; no accepted
\* setting transmits T2; the decoder gives T2 and T3 the same label.
C10_IntegrationTimeTables ==
    /\ \A i \in 1..Len(log) :
           (log[i].op = "integration_time" /\ log[i].kind = "none") =>
               /\ log[i].value[1] \in DOMAIN INT_TIMES
               /\ log[i].value[1] # <<"T", "2">>
               /\ state_to_dict(Reporting(log[i].value[1])).kind = "ok"
    /\ \A i \in 1..Len(log) :
           (log[i].op = "integration_time"
            /\ InChoices(log[i].arg, IntegrationTimeChoices)) => log[i].kind = "none"
    /\ INT_TIMES[<<"T", "2">>] = INT_TIMES[<<"T", "3">>]
    /\ state_to_dict(Reporting(<<"T", "2">>)).kind = "ok"

C10_Case ==
    /\ Len(log) = 2
    /\ log[1].op = "integration_time" /\ log[1].arg = PyStr("1s")
    /\ log[1].value = << <<"T", "3">> >>
    /\ log[2].op = "integration_time" /\ log[2].arg = PyStr("T2")
    /\ log[2].kind = "ValueError"

\* C2: the modes and the codes are in one-to-one correspondence: the decoder's
\* table takes the code of every mode back to that mode, MODES takes the mode
\* of every code the decoder knows back to that code, nine modes have nine
\* codes, and the mode a status string decodes to is the mode whose code the
\* string carries.
C2_ModeBijection ==
    /\ \A m \in DOMAIN MODES :
           MODES[m] \in DOMAIN CODE_TO_MODE /\ CODE_TO_MODE[MODES[m]] = m
    /\ \A c \in DOMAIN CODE_TO_MODE :
           CODE_TO_MODE[c] \in DOMAIN MODES /\ MODES[CODE_TO_MODE[c]] = c
    /\ Cardinality(DOMAIN MODES) = 9
    /\ Cardinality({MODES[m] : m \in DOMAIN MODES}) = 9
    /\ {MODES[m] : m \in DOMAIN MODES} = DOMAIN CODE_TO_MODE
    /\ (Decoded /\ outcome.kind = "ok") =>
           /\ outcome.value["mode"][2] \in DOMAIN MODES
           /\ MODES[outcome.value["mode"][2]] = Cut(12)

C2_Case ==
    /\ Decoded
    /\ outcome.kind = "ok"
    /\ Cut(12) = <<"O", "2">>
    /\ outcome.value["mode"] = PyStr("2-wire resistance")

====
